---- MODULE Spec2Model ----
(***************************************************************************)
(* Model of src/r_int.rs: the 32-bit two's-complement integer type RInt,   *)
(* its decimal parser (from_str), its renderer (to_string) and its four    *)
(* operators.                                                              *)
(*                                                                         *)
(* TLC's integers are 32-bit signed, so a u32 is kept as two 16-bit limbs  *)
(* [hi, lo] denoting hi * 2^16 + lo.  A "wide" number is the same record   *)
(* with an unbounded hi; it is what an exact (mathematical) result is      *)
(* computed in before it is checked against, or wrapped to, 32 bits.       *)
(***************************************************************************)
EXTENDS Integers, Sequences, FiniteSets

(***************************************************************************)
(* Bounds of the model (not program constants).                            *)
(***************************************************************************)
\* longest string drawn from the whole alphabet
MaxLen == 4
\* most leading zeros put before a boundary magnitude
MaxZeros == 2
\* longest fractional part put after a boundary magnitude
MaxFrac == 3
\* bit patterns within MaxPat of 0, 2^31 and 2^32 - 1 are drawn by from_u32
MaxPat == 4

(***************************************************************************)
(* Bytes the parser distinguishes (ASCII).                                 *)
(***************************************************************************)
B_plus == 43
B_minus == 45
B_dot == 46
B_0 == 48
B_9 == 57
\* the bytes next to the digit range ('/' and ':') and a letter ('a'): none
\* has a row in any state
B_slash == B_0 - 1
B_colon == B_9 + 1
B_a == B_0 + 49

Base == 2^16

(***************************************************************************)
(* Exact arithmetic on wide numbers.                                       *)
(***************************************************************************)
W(h, l) == [hi |-> h, lo |-> l]
WNorm(h, l) == [hi |-> h + (l \div Base), lo |-> l % Base]
WAdd(a, b) == WNorm(a.hi + b.hi, a.lo + b.lo)
\* a * k for a small scalar k
WMulSmall(a, k) == WNorm(a.hi * k, a.lo * k)
WLt(a, b) == a.hi < b.hi \/ (a.hi = b.hi /\ a.lo < b.lo)
WLe(a, b) == a = b \/ WLt(a, b)
\* a - b, for a >= b
WSub(a, b) ==
    IF a.lo >= b.lo THEN W(a.hi - b.hi, a.lo - b.lo)
    ELSE W(a.hi - b.hi - 1, a.lo + Base - b.lo)

Zero == W(0, 0)
One == W(0, 1)
\* u32::MAX and 2^32
U32Max == W(Base - 1, Base - 1)
TwoTo32 == W(Base, 0)
FitsU32(w) == w.hi < Base
WrapU32(w) == W(w.hi % Base, w.lo)

\* the exact product of two 16-bit limbs
MulLimb(x, y) ==
    LET p0 == (x % 256) * y
        p1 == (x \div 256) * y
        l  == (p0 % Base) + (p1 % 256) * 256
    IN  W((p0 \div Base) + (p1 \div 256) + (l \div Base), l % Base)

(***************************************************************************)
(* The u32 primitives the source uses.                                     *)
(***************************************************************************)
None == [ok |-> FALSE, val |-> Zero]
Some(v) == [ok |-> TRUE, val |-> v]

\* u32::checked_mul by a small factor: None on overflow
checked_mul(x, k) ==
    LET w == WMulSmall(x, k) IN IF FitsU32(w) THEN Some(w) ELSE None

\* u32::checked_add of a small addend: None on overflow
checked_add(x, d) ==
    LET w == WAdd(x, W(0, d)) IN IF FitsU32(w) THEN Some(w) ELSE None

\* the ! operator on u32
not_u32(x) == W(Base - 1 - x.hi, Base - 1 - x.lo)

\* the + operator on u32: on overflow it panics in a build with overflow
\* checks (debug, the profile of cargo test) and wraps in a build without
add_u32(x, y, oc) ==
    LET w == WAdd(x, y)
    IN  IF FitsU32(w) THEN [panic |-> FALSE, val |-> w]
        ELSE IF oc THEN [panic |-> TRUE, val |-> Zero]
        ELSE [panic |-> FALSE, val |-> WrapU32(w)]

wrapping_add(x, y) == WrapU32(WAdd(x, y))

wrapping_sub(x, y) ==
    IF WLe(y, x) THEN WSub(x, y) ELSE WSub(WAdd(x, TwoTo32), y)

wrapping_mul(x, y) ==
    LET ll == MulLimb(x.lo, y.lo)
        hl == MulLimb(x.hi, y.lo)
        lh == MulLimb(x.lo, y.hi)
    IN  W((ll.hi + hl.lo + lh.lo) % Base, ll.lo)

\* unsigned quotient and remainder, by doubling the divisor (y # 0)
RECURSIVE udivmod(_, _)
udivmod(x, y) ==
    IF WLt(x, y) THEN [q |-> Zero, r |-> x]
    ELSE LET h == udivmod(x, WAdd(y, y))
             q2 == WAdd(h.q, h.q)
         IN  IF WLe(y, h.r) THEN [q |-> WAdd(q2, One), r |-> WSub(h.r, y)]
             ELSE [q |-> q2, r |-> h.r]

\* variants of the division: on the signed reading of the bits, and
\* defined on a zero divisor
IsNeg(x) == x.hi >= Base \div 2
Neg(x) == WrapU32(WAdd(not_u32(x), One))
wrapping_div_signed(x, y) ==
    IF y = Zero THEN [panic |-> TRUE, val |-> Zero]
    ELSE LET ax == IF IsNeg(x) THEN Neg(x) ELSE x
             ay == IF IsNeg(y) THEN Neg(y) ELSE y
             q  == udivmod(ax, ay).q
         IN  [panic |-> FALSE,
              val |-> IF IsNeg(x) # IsNeg(y) THEN Neg(q) ELSE q]
wrapping_div_total(x, y) ==
    IF y = Zero THEN [panic |-> FALSE, val |-> Zero]
    ELSE [panic |-> FALSE, val |-> udivmod(x, y).q]
\* u32::wrapping_div: panics on a zero divisor in every build
wrapping_div(x, y) ==
    IF y = Zero THEN [panic |-> TRUE, val |-> Zero]
    ELSE [panic |-> FALSE, val |-> udivmod(x, y).q]

\* x / 10 and x % 10
divmod10(x) ==
    LET t == (x.hi % 10) * Base + x.lo
    IN  [q |-> WNorm(x.hi \div 10, t \div 10), r |-> t % 10]

\* u32::to_string: the decimal digits, most significant first, no leading zero
RECURSIVE u32_to_string(_)
u32_to_string(x) ==
    IF x.hi = 0 /\ x.lo < 10 THEN <<B_0 + x.lo>>
    ELSE LET d == divmod10(x) IN Append(u32_to_string(d.q), B_0 + d.r)

(***************************************************************************)
(* RInt::from_str.  A parse record holds the locals of the function and    *)
(* the error it returned early with, if any.                               *)
(***************************************************************************)
IsDigit(b) == B_0 <= b /\ b <= B_9

P0 == [state |-> "Start", bits |-> Zero, is_negative |-> FALSE, err |-> ""]

\* (Start, '+') | (Start, '-')
arm_sign_always_negative(p, b) ==
    [p EXCEPT !.state = "InInteger", !.is_negative = TRUE]
arm_sign(p, b) ==
    [p EXCEPT !.state = "InInteger",
              !.is_negative = IF b = B_minus THEN TRUE ELSE p.is_negative]

\* (Start | InInteger, '0'..='9')
arm_digit(p, b) ==
    LET digit == b - B_0
        m == checked_mul(p.bits, 10)
    IN  IF ~m.ok THEN [p EXCEPT !.state = "InInteger", !.err = "Overflow"]
        ELSE LET a == checked_add(m.val, digit)
             IN  IF ~a.ok
                 THEN [p EXCEPT !.state = "InInteger", !.bits = m.val,
                                !.err = "Overflow"]
                 ELSE [p EXCEPT !.state = "InInteger", !.bits = a.val]

\* (InInteger, '.')
arm_dot(p, b) == [p EXCEPT !.state = "InFraction"]

\* (InFraction, '0'..='9')
arm_fraction_rounding(p, b) ==
    IF b - B_0 >= 5 /\ WLt(p.bits, U32Max)
    THEN [p EXCEPT !.bits = WAdd(p.bits, One)] ELSE p
arm_fraction(p, b) == p

\* _ => return Err(InvalidDigit)
arm_invalid(p, b) == [p EXCEPT !.err = "InvalidDigit"]

\* which arm of the match (state, b) selects
match_arm_lenient(st, b) ==
    IF b \in {B_plus, B_minus} THEN "sign"
    ELSE IF st \in {"Start", "InInteger"} /\ IsDigit(b) THEN "digit"
    ELSE IF st = "InInteger" /\ b = B_dot THEN "dot"
    ELSE IF st = "InFraction" /\ IsDigit(b) THEN "fraction"
    ELSE "invalid"
match_arm(st, b) ==
    IF st = "Start" /\ b \in {B_plus, B_minus} THEN "sign"
    ELSE IF st \in {"Start", "InInteger"} /\ IsDigit(b) THEN "digit"
    ELSE IF st = "InInteger" /\ b = B_dot THEN "dot"
    ELSE IF st = "InFraction" /\ IsDigit(b) THEN "fraction"
    ELSE "invalid"

\* one iteration of the loop over the bytes
step(p, b) ==
    CASE match_arm(p.state, b) = "sign" -> arm_sign(p, b)
      [] match_arm(p.state, b) = "digit" -> arm_digit(p, b)
      [] match_arm(p.state, b) = "dot" -> arm_dot(p, b)
      [] match_arm(p.state, b) = "fraction" -> arm_fraction(p, b)
      [] OTHER -> arm_invalid(p, b)

\* the results of from_str, to_string and the operators
NoResult == [kind |-> "None", bits |-> Zero]
Ok(v) == [kind |-> "Ok", bits |-> v]
Err(e) == [kind |-> e, bits |-> Zero]
Panic == [kind |-> "Panic", bits |-> Zero]

\* the statements after the loop: the sign adjustment and the return
finish_unchecked_sign(p, oc) == Ok(p.bits)
finish(p, oc) ==
    IF p.is_negative
    THEN LET n == add_u32(not_u32(p.bits), One, oc)
         IN  IF n.panic THEN Panic ELSE Ok(n.val)
    ELSE Ok(p.bits)

\* the whole function, on the bytes of str from position i on
RECURSIVE scan_from(_, _, _)
scan_from(p, str, i) ==
    IF i > Len(str) \/ p.err # "" THEN p
    ELSE scan_from(step(p, str[i]), str, i + 1)

from_str(str, oc) ==
    LET p == scan_from(P0, str, 1)
    IN  IF p.err # "" THEN Err(p.err) ELSE finish(p, oc)

(***************************************************************************)
(* RInt::to_string.                                                        *)
(***************************************************************************)
sign_bit(x) == W((x.hi \div (Base \div 2)) * (Base \div 2), 0)

NoText == [kind |-> "None", text |-> <<>>]
to_string_unsigned(x, oc) == [kind |-> "Ok", text |-> u32_to_string(x)]
to_string_ones_complement(x, oc) ==
    IF sign_bit(x) # Zero
    THEN [kind |-> "Ok", text |-> <<B_minus>> \o u32_to_string(not_u32(x))]
    ELSE [kind |-> "Ok", text |-> u32_to_string(x)]
to_string(x, oc) ==
    IF sign_bit(x) # Zero
    THEN LET v == add_u32(not_u32(x), One, oc)
         IN  IF v.panic THEN [kind |-> "Panic", text |-> <<>>]
             ELSE [kind |-> "Ok", text |-> <<B_minus>> \o u32_to_string(v.val)]
    ELSE [kind |-> "Ok", text |-> u32_to_string(x)]

(***************************************************************************)
(* The operators.                                                          *)
(***************************************************************************)
NoOp == [op |-> "", kind |-> "None", bits |-> Zero]
add(x, y) == [op |-> "add", kind |-> "Ok", bits |-> wrapping_add(x, y)]
sub(x, y) == [op |-> "sub", kind |-> "Ok", bits |-> wrapping_sub(x, y)]
mul(x, y) == [op |-> "mul", kind |-> "Ok", bits |-> wrapping_mul(x, y)]
div(x, y) ==
    LET d == wrapping_div(x, y)
    IN  IF d.panic THEN [op |-> "div", kind |-> "Panic", bits |-> Zero]
        ELSE [op |-> "div", kind |-> "Ok", bits |-> d.val]

(***************************************************************************)
(* Inputs.                                                                 *)
(***************************************************************************)
Alphabet == {B_plus, B_minus, B_dot, B_0, B_0 + 5, B_9, B_slash, B_colon, B_a}
ShortStrings == UNION {[1..n -> Alphabet] : n \in 0..MaxLen}

Bytes(ds) == [i \in DOMAIN ds |-> B_0 + ds[i]]
\* decimal magnitudes around 2^31 and 2^32, and some beyond 2^32
Magnitudes ==
    { <<0>>, <<5>>, <<2, 5>>,
      <<2,1,4,7,4,8,3,6,4,7>>, <<2,1,4,7,4,8,3,6,4,8>>, <<2,1,4,7,4,8,3,6,4,9>>,
      <<3,0,0,0,0,0,0,0,0,0>>,
      <<4,2,9,4,9,6,7,2,9,5>>, <<4,2,9,4,9,6,7,2,9,6>>, <<4,2,9,4,9,6,7,3,0,0>>,
      <<4,2,9,4,9,6,7,2,9,5,0>>, <<9,9,9,9,9,9,9,9,9,9,9>> }
Signs == {<<>>, <<B_plus>>, <<B_minus>>}
ZeroRuns == {[i \in 1..n |-> B_0] : n \in 0..MaxZeros}
Fractions ==
    UNION {{<<B_dot>> \o f : f \in [1..n -> {B_0, B_9}]} : n \in 0..MaxFrac}
Tails ==
    Fractions \cup { <<>>, <<B_a>>, <<B_minus, B_0 + 3>>,
                     <<B_dot, B_0 + 2, B_dot, B_0 + 3>> }
BoundaryStrings ==
    {sg \o z \o Bytes(m) \o t :
        sg \in Signs, z \in ZeroRuns, m \in Magnitudes, t \in Tails}
Inputs == ShortStrings \cup BoundaryStrings

\* the operands the tests parse
OperandInputs ==
    {Bytes(<<1>>), Bytes(<<5>>), Bytes(<<1, 3>>), <<B_minus>> \o Bytes(<<5>>)}

Patterns ==
    {W(0, k) : k \in 0..MaxPat}
    \cup {W(Base \div 2, k) : k \in 0..MaxPat}
    \cup {W(Base \div 2 - 1, Base - 1 - k) : k \in 0..MaxPat}
    \cup {W(Base - 1, Base - 1 - k) : k \in 0..MaxPat}
    \cup { W(0, 5), W(0, 13), W(0, 25), W(0, Base - 1), W(1, 0),
           W(Base - 1, Base - 5), W(Base - 1, Base - 8), W(45776, 24064) }

(***************************************************************************)
(* State.                                                                  *)
(***************************************************************************)
VARIABLES
    overflow_checks,  \* the build: TRUE when arithmetic overflow panics
    pc,               \* "idle", "scan" (inside from_str) or "done" (returned)
    s, idx,           \* from_str: the argument and the loop's position in it
    state, bits, is_negative,   \* from_str: the locals
    parsed,           \* what from_str returned
    r1, r2,           \* the values held: r1 the left operand, r2 the last made
    r3,               \* what the operator applied to r1 and r2 gave
    rendered          \* what r2.to_string() gave

vars == <<overflow_checks, pc, s, idx, state, bits, is_negative, parsed,
          r1, r2, r3, rendered>>

Locals == [state |-> state, bits |-> bits, is_negative |-> is_negative,
           err |-> ""]

Init ==
    /\ overflow_checks \in BOOLEAN
    /\ pc = "idle"
    /\ s = <<>>
    /\ idx = 1
    /\ state = "Start"
    /\ bits = Zero
    /\ is_negative = FALSE
    /\ parsed = NoResult
    /\ r1 = None
    /\ r2 = None
    /\ r3 = NoOp
    /\ rendered = NoText

\* from_str is entered: the locals are initialised
Enter(str) ==
    /\ pc' = "scan"
    /\ s' = str
    /\ idx' = 1
    /\ state' = P0.state
    /\ bits' = P0.bits
    /\ is_negative' = P0.is_negative
    /\ parsed' = NoResult

\* RInt::from_str(str) on a fresh input
ParseInput ==
    /\ pc = "idle" /\ ~r1.ok /\ ~r2.ok
    /\ \E str \in Inputs : Enter(str)
    /\ UNCHANGED <<overflow_checks, r1, r2, r3, rendered>>

\* RInt::from_str(str) for the right operand
ParseOperand ==
    /\ pc = "idle" /\ r1.ok /\ ~r2.ok
    /\ \E str \in OperandInputs : Enter(str)
    /\ UNCHANGED <<overflow_checks, r1, r2, r3, rendered>>

\* RInt::from_str(&r2.to_string())
ParseRendered ==
    /\ pc \in {"idle", "done"} /\ rendered.kind = "Ok"
    /\ Enter(rendered.text)
    /\ UNCHANGED <<overflow_checks, r1, r2, r3, rendered>>

\* one iteration of the loop, through the arm named
Scan(arm) ==
    /\ pc = "scan" /\ idx <= Len(s)
    /\ match_arm(state, s[idx]) = arm
    /\ LET p == step(Locals, s[idx])
       IN  /\ state' = p.state
           /\ bits' = p.bits
           /\ is_negative' = p.is_negative
           /\ idx' = idx + 1
           /\ pc' = IF p.err # "" THEN "done" ELSE "scan"
           /\ parsed' = IF p.err # "" THEN Err(p.err) ELSE parsed
    /\ UNCHANGED <<overflow_checks, s, r1, r2, r3, rendered>>

ScanSign == Scan("sign")
ScanDigit == Scan("digit")
ScanDot == Scan("dot")
ScanFraction == Scan("fraction")
ScanInvalid == Scan("invalid")

\* the loop is over: the sign adjustment and the return
Finish ==
    /\ pc = "scan" /\ idx > Len(s)
    /\ parsed' = finish(Locals, overflow_checks)
    /\ bits' = IF parsed'.kind = "Ok" THEN parsed'.bits ELSE bits
    /\ pc' = "done"
    /\ UNCHANGED <<overflow_checks, s, idx, state, is_negative,
                   r1, r2, r3, rendered>>

\* let r2 = <the value from_str returned>
Unwrap ==
    /\ pc = "done" /\ parsed.kind = "Ok" /\ ~r2.ok
    /\ r2' = Some(parsed.bits)
    /\ UNCHANGED <<overflow_checks, pc, s, idx, state, bits, is_negative,
                   parsed, r1, r3, rendered>>

\* let r2 = RInt::from_u32(x)
FromU32 ==
    /\ pc = "idle" /\ ~r2.ok
    /\ \E x \in Patterns : r2' = Some(x)
    /\ UNCHANGED <<overflow_checks, pc, s, idx, state, bits, is_negative,
                   parsed, r1, r3, rendered>>

\* r2.to_string()
ToStringCall ==
    /\ r2.ok /\ ~r1.ok /\ rendered.kind = "None"
    /\ rendered' = to_string(r2.val, overflow_checks)
    /\ UNCHANGED <<overflow_checks, pc, s, idx, state, bits, is_negative,
                   parsed, r1, r2, r3>>

\* let r1 = r2: the value becomes the left operand; from_str's frame is gone
Hold ==
    /\ r2.ok /\ ~r1.ok /\ rendered.kind = "None"
    /\ r1' = r2
    /\ r2' = None
    /\ pc' = "idle"
    /\ s' = <<>>
    /\ idx' = 1
    /\ state' = P0.state
    /\ bits' = P0.bits
    /\ is_negative' = P0.is_negative
    /\ parsed' = NoResult
    /\ UNCHANGED <<overflow_checks, r3, rendered>>

Operate(res) ==
    /\ r1.ok /\ r2.ok /\ r3.kind = "None"
    /\ r3' = res
    /\ UNCHANGED <<overflow_checks, pc, s, idx, state, bits, is_negative,
                   parsed, r1, r2, rendered>>

\* let r3 = r1 + r2, r1 - r2, r1 * r2, r1 / r2
Add == Operate(add(r1.val, r2.val))
Sub == Operate(sub(r1.val, r2.val))
Mul == Operate(mul(r1.val, r2.val))
Div == Operate(div(r1.val, r2.val))

Next ==
    \/ ParseInput
    \/ ParseOperand
    \/ ParseRendered
    \/ ScanSign
    \/ ScanDigit
    \/ ScanDot
    \/ ScanFraction
    \/ ScanInvalid
    \/ Finish
    \/ Unwrap
    \/ FromU32
    \/ ToStringCall
    \/ Hold
    \/ Add
    \/ Sub
    \/ Mul
    \/ Div

Spec == Init /\ [][Next]_vars

(***************************************************************************)
(* What a string denotes, read off the string itself.                      *)
(***************************************************************************)
HasSign(str) == Len(str) >= 1 /\ str[1] \in {B_plus, B_minus}
Negative(str) == Len(str) >= 1 /\ str[1] = B_minus
BodyStart(str) == IF HasSign(str) THEN 2 ELSE 1

\* the position after the run of digits that starts at BodyStart
IntEnd(str) ==
    LET stops == {i \in BodyStart(str)..Len(str) : ~IsDigit(str[i])}
    IN  IF stops = {} THEN Len(str) + 1
        ELSE CHOOSE i \in stops : \A j \in stops : i <= j

\* the bytes of the integer part
IntPart(str) == SubSeq(str, BodyStart(str), IntEnd(str) - 1)

\* ds without its leading zeros, keeping one digit
RECURSIVE Canonical(_)
Canonical(ds) ==
    IF Len(ds) > 1 /\ ds[1] = B_0 THEN Canonical(Tail(ds)) ELSE ds

\* the number a sequence of digit bytes denotes (zero when empty)
RECURSIVE DecValue(_)
DecValue(ds) ==
    IF ds = <<>> THEN Zero
    ELSE WAdd(WMulSmall(DecValue(SubSeq(ds, 1, Len(ds) - 1)), 10),
              W(0, ds[Len(ds)] - B_0))

Magnitude(str) == DecValue(Canonical(IntPart(str)))

IsCanonical(ds) ==
    /\ ds # <<>>
    /\ \A i \in DOMAIN ds : IsDigit(ds[i])
    /\ Canonical(ds) = ds

\* an optional sign followed by one or more digits, and nothing else
IsSignedDigits(str) ==
    /\ IntEnd(str) = Len(str) + 1
    /\ IntPart(str) # <<>>

\* byte i of str has no row in the transition table, whatever precedes it
\* being accepted: a sign that is not first, a '.' that is first or second
\* of its kind, or a byte that is none of sign, '.', digit
BadByteAt(str, i) ==
    LET b == str[i]
    IN  \/ b \notin {B_plus, B_minus, B_dot} /\ ~IsDigit(b)
        \/ b \in {B_plus, B_minus} /\ i > 1
        \/ b = B_dot /\ (i = 1 \/ \E j \in 1..(i - 1) : str[j] = B_dot)

FirstBad(str) ==
    LET bad == {i \in 1..Len(str) : BadByteAt(str, i)}
    IN  IF bad = {} THEN 0 ELSE CHOOSE i \in bad : \A j \in bad : i <= j

\* the row of the transition table for (st, b): the next state, or "none"
TableRow(st, b) ==
    CASE st = "Start" /\ (b \in {B_plus, B_minus} \/ IsDigit(b)) -> "InInteger"
      [] st = "InInteger" /\ IsDigit(b) -> "InInteger"
      [] st = "InInteger" /\ b = B_dot -> "InFraction"
      [] st = "InFraction" /\ IsDigit(b) -> "InFraction"
      [] OTHER -> "none"

DotPos(str) ==
    LET dots == {i \in 1..Len(str) : str[i] = B_dot}
    IN  IF dots = {} THEN 0 ELSE CHOOSE i \in dots : \A j \in dots : i <= j

\* str is i ++ "." ++ f with i a sign and/or digits (so that i leaves the
\* parser in InInteger unless it overflows) and f digits only
IsTruncation(str) ==
    /\ DotPos(str) > 1
    /\ DotPos(str) = IntEnd(str)
    /\ \A j \in (DotPos(str) + 1)..Len(str) : IsDigit(str[j])

\* byte k of x, k in 0..3
Byte(x, k) ==
    IF k < 2 THEN (x.lo \div 256^k) % 256 ELSE (x.hi \div 256^(k - 2)) % 256

\* (x * y) mod 2^32, by columns of byte products
MulMod(x, y) ==
    LET T(i, j) == Byte(x, i) * Byte(y, j)
        c0 == T(0, 0)
        c1 == T(0, 1) + T(1, 0)
        c2 == T(0, 2) + T(1, 1) + T(2, 0)
        c3 == T(0, 3) + T(1, 2) + T(2, 1) + T(3, 0)
        low == c0 + 256 * c1
    IN  W(((low \div Base) + c2 + 256 * c3) % Base, low % Base)

\* x * y exactly when it is below 2^32, and 2^33 otherwise
MulSat(x, y) ==
    LET huge == W(2 * Base, 0)
        mid == WAdd(MulLimb(x.hi, y.lo), MulLimb(x.lo, y.hi))
        p == WAdd(W(mid.lo, 0), MulLimb(x.lo, y.lo))
    IN  IF (x.hi # 0 /\ y.hi # 0) \/ mid.hi # 0 \/ ~FitsU32(p) THEN huge
        ELSE p

\* the state the transition table leads to on the first n bytes of str,
\* "none" once a byte has no row
RECURSIVE TableState(_, _)
TableState(str, n) ==
    IF n = 0 THEN "Start"
    ELSE LET st == TableState(str, n - 1)
         IN  IF st = "none" THEN "none" ELSE TableRow(st, str[n])

(***************************************************************************)
(* C1.  from_str ends in Ok, Err(InvalidDigit) or Err(Overflow) and never  *)
(* in a fatal fault.  The code faults: with a '-' recorded and a magnitude *)
(* of zero, !bits + 1 is 0xFFFFFFFF + 1, which panics in a build with      *)
(* overflow checks.                                                        *)
(***************************************************************************)
\* C1: every return of from_str is Ok, InvalidDigit or Overflow
C1_ThreeOutcomes ==
    pc = "done" => parsed.kind \in {"Ok", "InvalidDigit", "Overflow"}

(***************************************************************************)
(* C2.  Every operator succeeds on every pair of values, a zero divisor    *)
(* included.  Amended: add, sub and mul succeed on every pair and div on   *)
(* every pair with a non-zero divisor; div by a zero divisor panics.       *)
(***************************************************************************)
\* C2 as stated: no operator ends in a panic
C2_OperatorsNeverFail == r3.kind \in {"None", "Ok"}

\* C2 amended: an operator panics exactly when it is div and the divisor's
\* bits are 0; otherwise it gives a new 32-bit value
C2_OperatorsFailOnlyOnZeroDivisor ==
    r3.kind # "None" =>
        /\ r3.kind \in {"Ok", "Panic"}
        /\ r3.kind = "Panic" <=> (r3.op = "div" /\ r2.val = Zero)
        /\ FitsU32(r3.bits) /\ r3.bits.hi >= 0 /\ r3.bits.lo \in 0..(Base - 1)

C2_Witness ==
    /\ r3.op = "div" /\ r3.kind = "Ok"
    /\ r2.val = W(0, 5) /\ r1.val = W(Base - 1, Base - 5)

(***************************************************************************)
(* C3.  to_string(from_str(s)) is the canonical decimal form of the signed *)
(* value s denotes, for every magnitude in [0, 2^32 - 1].  Amended: for    *)
(* magnitudes up to 2^31 - 1 without '-', and from 1 to 2^31 with '-'.     *)
(***************************************************************************)
\* rendered is to_string of the value from_str(s) returned
RenderedFromParse ==
    /\ pc = "done" /\ parsed.kind = "Ok"
    /\ r2.ok /\ r2.val = parsed.bits
    /\ rendered.kind # "None"

ExpectedText(str) ==
    IF Negative(str) THEN <<B_minus>> \o Canonical(IntPart(str))
    ELSE Canonical(IntPart(str))

\* C3 as stated: the round trip gives the canonical form for every accepted
\* sign and digits (a '-' with magnitude 0 aside)
C3_RoundTripAnyMagnitude ==
    (RenderedFromParse /\ IsSignedDigits(s)
        /\ ~(Negative(s) /\ Magnitude(s) = Zero))
    => rendered = [kind |-> "Ok", text |-> ExpectedText(s)]

InSignedRange(str) ==
    IF Negative(str)
    THEN WLe(One, Magnitude(str)) /\ WLe(Magnitude(str), W(Base \div 2, 0))
    ELSE WLt(Magnitude(str), W(Base \div 2, 0))

\* C3 amended: the round trip gives the canonical form when the signed value
\* is in [-2^31, 2^31 - 1], and another text for the other accepted magnitudes
C3_RoundTripInSignedRange ==
    (RenderedFromParse /\ IsSignedDigits(s)
        /\ ~(Negative(s) /\ Magnitude(s) = Zero))
    => /\ rendered.kind = "Ok"
       /\ rendered.text = ExpectedText(s) <=> InSignedRange(s)

C3_Witness ==
    /\ RenderedFromParse
    /\ s = <<B_minus>> \o Bytes(<<2, 5>>)
    /\ rendered.text = s

C5_OverflowBound ==
    pc = "done" =>
        /\ parsed.kind = "Overflow" <=> WLt(U32Max, Magnitude(s))
        /\ IsSignedDigits(s) =>
              /\ WLe(Magnitude(s), U32Max) => parsed.kind = "Ok"
              /\ WLe(TwoTo32, Magnitude(s)) => parsed.kind = "Overflow"

(***************************************************************************)
(* C6.  The parser state moves as the transition table says, and from_str  *)
(* returns InvalidDigit at the first byte without a row.                   *)
(***************************************************************************)
\* C6: while scanning, the state is the one the table gives for the bytes
\* read; the outcome is InvalidDigit exactly when the scan reaches a byte
\* without a row, and it is returned at that byte
C6_TableAndInvalidDigit ==
    /\ (pc = "scan" \/ (pc = "done" /\ parsed.kind \in {"Ok", "Panic"}))
          => state = TableState(s, idx - 1)
    /\ (pc = "done" /\ parsed.kind = "Overflow")
          => /\ state = "InInteger"
             /\ TableState(s, idx - 1) = "InInteger"
    /\ pc = "done" =>
          /\ parsed.kind = "InvalidDigit" <=>
                (FirstBad(s) # 0 /\ WLe(Magnitude(s), U32Max))
          /\ parsed.kind = "InvalidDigit" <=> TableState(s, idx - 1) = "none"
          /\ parsed.kind = "InvalidDigit" => idx - 1 = FirstBad(s)
          /\ parsed.kind \in {"Ok", "Panic"} =>
                /\ FirstBad(s) = 0
                /\ idx = Len(s) + 1

C6_Witness ==
    /\ pc = "done" /\ parsed.kind = "InvalidDigit"
    /\ s = Bytes(<<2, 5>>) \o <<B_minus, B_0 + 3>>
    /\ idx - 1 = 3

(***************************************************************************)
(* C7.  A fractional part changes nothing: from_str(i ++ "." ++ f) has the *)
(* outcome of from_str(i).                                                 *)
(***************************************************************************)
\* C7: once in InFraction the bits and the sign are those of the integer
\* part and no error is returned, and the outcome is that of the string
\* before the '.'
C7_Truncation ==
    /\ (pc = "scan" /\ state = "InFraction") =>
          /\ bits = Magnitude(s)
          /\ is_negative = Negative(s)
          /\ parsed = NoResult
    /\ (pc = "done" /\ IsTruncation(s)) =>
          parsed = from_str(SubSeq(s, 1, DotPos(s) - 1), overflow_checks)

C7_Witness ==
    /\ pc = "done"
    /\ s = Bytes(<<5>>) \o <<B_dot, B_9, B_9>>
    /\ parsed = Ok(W(0, 5))

(***************************************************************************)
(* C8.  to_string never faults and gives the decimal form of the signed    *)
(* 32-bit reading of the bits.                                             *)
(***************************************************************************)
\* C8: the text is the canonical digits of bits when the top bit is clear,
\* and '-' then the canonical digits of 2^32 - bits when it is set
C8_Renderer ==
    rendered.kind # "None" =>
        /\ rendered.kind = "Ok"
        /\ IF r2.val.hi < Base \div 2
           THEN /\ IsCanonical(rendered.text)
                /\ DecValue(rendered.text) = r2.val
           ELSE /\ rendered.text # <<>> /\ rendered.text[1] = B_minus
                /\ IsCanonical(Tail(rendered.text))
                /\ DecValue(Tail(rendered.text)) = WSub(TwoTo32, r2.val)
        /\ r2.val = W(Base \div 2, 0) =>
              rendered.text = <<B_minus>> \o Bytes(<<2,1,4,7,4,8,3,6,4,8>>)
        /\ r2.val = U32Max => rendered.text = <<B_minus>> \o Bytes(<<1>>)

C8_Witness ==
    /\ rendered.kind = "Ok"
    /\ r2.val = W(Base \div 2, 0)
    /\ Len(rendered.text) = 11

(***************************************************************************)
(* C9.  The operators compute on the unsigned bit patterns: the sum, the   *)
(* difference and the product modulo 2^32, and the unsigned floor quotient.*)
(***************************************************************************)
\* C9: r3 is (r1 + r2), (r1 - r2), (r1 * r2) mod 2^32, or the q with
\* q * r2 <= r1 < q * r2 + r2
C9_UnsignedOperators ==
    (r3.kind # "None" /\ ~(r3.op = "div" /\ r2.val = Zero)) =>
        LET a == r1.val
            b == r2.val
            c == r3.bits
        IN  /\ r3.kind = "Ok"
            /\ FitsU32(c)
            /\ r3.op = "add" =>
                  (WAdd(a, b) = c \/ WAdd(a, b) = WAdd(c, TwoTo32))
            /\ r3.op = "sub" =>
                  (WAdd(c, b) = a \/ WAdd(c, b) = WAdd(a, TwoTo32))
            /\ r3.op = "mul" => c = MulMod(a, b)
            /\ r3.op = "div" =>
                  /\ WLe(MulSat(c, b), a)
                  /\ WLt(a, WAdd(MulSat(c, b), b))
            /\ (r3.op = "add" /\ a = U32Max /\ b = One) => c = Zero
            /\ (r3.op = "sub" /\ a = W(0, 5) /\ b = W(0, 13))
                  => c = W(Base - 1, Base - 8)
            /\ (r3.op = "mul" /\ a = W(0, 5) /\ b = W(0, 13)) => c = W(0, 65)
            /\ (r3.op = "div" /\ a = W(0, 13) /\ b = W(0, 5)) => c = W(0, 2)

C9_Witness ==
    /\ r3.op = "div" /\ r3.kind = "Ok"
    /\ r1.val = W(Base - 1, Base - 5) /\ r2.val = W(0, 5)
    /\ r3.bits = W(13107, 13106)

(***************************************************************************)
(* C10.  Parsing what to_string printed gives the bits back.               *)
(***************************************************************************)
\* C10: from_str(to_string(x)) is Ok with the bits of x
C10_ParseOfRender ==
    (pc = "done" /\ rendered.kind = "Ok" /\ r2.ok /\ s = rendered.text)
    => parsed = Ok(r2.val)

C10_Witness ==
    /\ pc = "done" /\ rendered.kind = "Ok" /\ s = rendered.text
    /\ r2.val = W(Base \div 2, 0)
    /\ parsed = Ok(W(Base \div 2, 0))

====
